---- MODULE Spec2Model ----
(***************************************************************************)
(* A model of the tiny chaos framework: the safety checker (safety.py,     *)
(* service_discovery.py, environment_detector.py), the experiment runner   *)
(* (experiments.py) and the two run flows (chaos_framework.run_experiment  *)
(* and chaos_controller.main).                                             *)
(*                                                                         *)
(* Python strings that the code only compares for equality are TLA+        *)
(* strings.  Strings the code takes apart (lower(), substring test) are    *)
(* sequences of one-character strings.  Python dicts are functions whose   *)
(* domain is the set of keys present, read with Get (dict.get).            *)
(***************************************************************************)
EXTENDS Integers, Sequences, FiniteSets, TLC

VARIABLES
    config,               \* SafetyChecker.config, the loaded safety configuration
    host,                 \* what the process can observe: os.environ, hostname, k8s marker, consul answer
    environment_cache,    \* SafetyChecker._environment_cache
    experiment,           \* the experiment request (dict loaded from YAML)
    decision,             \* the last value returned by is_safe_to_run: [is_safe, violations]
    running_experiments,  \* ExperimentRunner.running_experiments
    procs,                \* external state: the stress-ng processes launched by Popen
    qdisc,                \* external state: interfaces carrying a netem root qdisc
    last,                 \* the last ExperimentRunner call: what it did and how it ended
    entry,                \* which run entry point drives the flow
    dry_run,              \* args.dry_run
    pc,                   \* position of the run flow
    flow,                 \* history of the run flow: start reached, emergency stop invoked, exit code
    baseline_metrics,     \* MonitoringClient.baseline_metrics
    comparison,           \* the last compare_with_baseline call: the snapshots it read and how it ended
    clients,              \* DashboardServer.clients
    streaming,            \* DashboardServer.streaming
    conn,                 \* per websocket: whether the peer is still there
    handler,              \* per websocket: position of its client_handler task
    loop,                 \* per metrics_collection_loop task: its position
    bc,                   \* per task: the iteration of the broadcast it is in
    polled                \* the loop tasks that polled since streaming was last switched on

monitoringVars == <<baseline_metrics, comparison>>
dashboardVars  == <<clients, streaming, conn, handler, loop, bc, polled>>
serviceVars    == <<monitoringVars, dashboardVars>>

vars == <<config, host, environment_cache, experiment, decision,
          running_experiments, procs, qdisc, last, entry, dry_run, pc, flow,
          baseline_metrics, comparison,
          clients, streaming, conn, handler, loop, bc, polled>>

safetyVars == <<config, host, environment_cache, decision>>
runnerVars == <<running_experiments, procs, qdisc, last>>
flowVars   == <<entry, dry_run, pc, flow>>

-----------------------------------------------------------------------------
(* Python helpers *)

\* dict.get(key, default)
Get(d, k, default) == IF k \in DOMAIN d THEN d[k] ELSE default

\* x in list
InList(x, list) == \E i \in 1..Len(list) : list[i] = x

\* the value None
None == "None"

\* the empty dict {}
EmptyDict == [k \in {} |-> None]

\* str.lower() on one character
LowerChar(c) ==
    CASE c = "D" -> "d"
      [] c = "P" -> "p"
      [] c = "W" -> "w"
      [] OTHER -> c

\* str.lower()
lower(s) == [i \in 1..Len(s) |-> LowerChar(s[i])]

\* sub in s, for two strings
Contains(sub, s) ==
    \E i \in 0..(Len(s) - Len(sub)) : SubSeq(s, i + 1, i + Len(sub)) = sub

\* string literals of the source that the code takes apart
Star    == <<"*">>
unknown == <<"u", "n", "k", "n", "o", "w", "n">>

-----------------------------------------------------------------------------
(* service_discovery.py *)

kube_dns              == <<"k","u","b","e","-","d","n","s">>
kube_proxy            == <<"k","u","b","e","-","p","r","o","x","y">>
kubernetes_dashboard  == <<"k","u","b","e","r","n","e","t","e","s","-","d","a","s","h","b","o","a","r","d">>
monitoring_prometheus == <<"m","o","n","i","t","o","r","i","n","g","-","p","r","o","m","e","t","h","e","u","s">>
monitoring_grafana    == <<"m","o","n","i","t","o","r","i","n","g","-","g","r","a","f","a","n","a">>

\* os.path.exists(serviceaccount marker) or KUBERNETES_SERVICE_HOST is set
_is_kubernetes_environment(h) == h.k8s_marker \/ "KUBERNETES_SERVICE_HOST" \in DOMAIN h.environ

\* the try block never raises here: the list is fixed
_get_kubernetes_protected_services(h) ==
    IF _is_kubernetes_environment(h)
    THEN {kube_dns, kube_proxy, kubernetes_dashboard, monitoring_prometheus, monitoring_grafana}
    ELSE {}

\* the loop over services.items(); an item whose tags cannot be iterated raises
\* inside the try, and the names appended before it are what is returned
RECURSIVE ConsulScan(_, _, _, _)
ConsulScan(items, i, protected_tags, acc) ==
    IF i > Len(items) THEN acc
    ELSE IF ~items[i].iterable THEN acc
    ELSE ConsulScan(items, i + 1, protected_tags,
                    IF \E j \in 1..Len(items[i].tags) : InList(items[i].tags[j], protected_tags)
                    THEN acc \cup {items[i].name} ELSE acc)

\* requests.get raising (timeout, unreachable), a non-200 answer and a body that
\* is not JSON all leave the list empty
_get_consul_protected_services(sd, h) ==
    IF h.consul.status = "ok"
    THEN ConsulScan(h.consul.services, 1,
                    Get(Get(sd, "consul", EmptyDict), "protected_service_tags", <<>>), {})
    ELSE {}

get_protected_services(sd, h) ==
    (IF Get(Get(sd, "kubernetes", EmptyDict), "enabled", FALSE)
     THEN _get_kubernetes_protected_services(h) ELSE {})
    \cup
    (IF Get(Get(sd, "consul", EmptyDict), "enabled", FALSE)
     THEN _get_consul_protected_services(sd, h) ELSE {})

is_service_protected_by_discovery(service_name, sd, h) ==
    service_name \in get_protected_services(sd, h)


-----------------------------------------------------------------------------
(* environment_detector.py *)

\* re.match("^" + pattern with * -> .* and ? -> . + "$", text, re.IGNORECASE):
\* text[i..] against pattern[j..]; an unescaped "." of the pattern is the regex dot
RECURSIVE GlobFrom(_, _, _, _)
GlobFrom(text, i, pattern, j) ==
    IF j > Len(pattern) THEN i > Len(text)
    ELSE IF pattern[j] = "*"
         THEN \E k \in i..(Len(text) + 1) : GlobFrom(text, k, pattern, j + 1)
         ELSE /\ i <= Len(text)
              /\ \/ pattern[j] \in {"?", "."}
                 \/ LowerChar(pattern[j]) = LowerChar(text[i])
              /\ GlobFrom(text, i + 1, pattern, j + 1)

_match_pattern(text, pattern) == GlobFrom(text, 1, pattern, 1)

\* one probe: _detect_aws, _detect_gcp, _detect_azure catch every exception and
\* return None unless the first request answers 200; only aws collects tags
NoCloud == [found |-> FALSE, provider |-> None, tags |-> EmptyDict]

_detect_provider(provider, h) ==
    IF h.cloud[provider].status = "ok"
    THEN [found |-> TRUE, provider |-> provider,
          tags |-> IF provider = "aws" THEN h.cloud[provider].tags ELSE EmptyDict]
    ELSE NoCloud

\* the loop of _detect_cloud_provider from entry i on: a provider entry without
\* metadata_url raises KeyError (continue), a provider that is none of the three
\* falls through, and a known provider's probe result is returned as it is
RECURSIVE CloudFrom(_, _, _)
CloudFrom(cloud_providers, i, h) ==
    IF i > Len(cloud_providers) THEN NoCloud
    ELSE IF "metadata_url" \notin DOMAIN cloud_providers[i].config
         THEN CloudFrom(cloud_providers, i + 1, h)
    ELSE IF cloud_providers[i].provider \in {"aws", "gcp", "azure"}
         THEN _detect_provider(cloud_providers[i].provider, h)
    ELSE CloudFrom(cloud_providers, i + 1, h)

_detect_cloud_provider(cfg, h) ==
    LET cloud_providers == Get(Get(cfg, "environment_detection", EmptyDict), "cloud_providers", <<>>) IN
    IF Len(cloud_providers) = 0 THEN NoCloud ELSE CloudFrom(cloud_providers, 1, h)

\* a KEY=value pattern is kept split: [has_eq, key, value]
PairMatches(patterns, d) ==
    \E i \in 1..Len(patterns) :
        /\ patterns[i].has_eq
        /\ patterns[i].key \in DOMAIN d
        /\ d[patterns[i].key] = patterns[i].value

RuleMatches(rule, h, tags) ==
    LET patterns == Get(rule, "patterns", EmptyDict) IN
    \/ /\ "hostname" \in DOMAIN patterns
       /\ \E i \in 1..Len(patterns["hostname"]) : _match_pattern(h.hostname, patterns["hostname"][i])
    \/ /\ "environment_vars" \in DOMAIN patterns
       /\ PairMatches(patterns["environment_vars"], h.environ)
    \/ /\ "cloud_tags" \in DOMAIN patterns
       /\ PairMatches(patterns["cloud_tags"], tags)

\* ClassifyFrom going on after a match: the last matching rule wins
RECURSIVE ClassifyFrom_LastMatch(_, _, _, _)
ClassifyFrom_LastMatch(classification_rules, i, h, tags) ==
    IF i > Len(classification_rules) THEN "default"
    ELSE LET later == ClassifyFrom_LastMatch(classification_rules, i + 1, h, tags) IN
         IF later # "default" THEN later
         ELSE IF RuleMatches(classification_rules[i], h, tags) THEN classification_rules[i].name
         ELSE "default"

\* the loop over the rules from rule i on: the first rule that matches returns
RECURSIVE ClassifyFrom(_, _, _, _)
ClassifyFrom(classification_rules, i, h, tags) ==
    IF i > Len(classification_rules) THEN "default"
    ELSE IF RuleMatches(classification_rules[i], h, tags) THEN classification_rules[i].name
    ELSE ClassifyFrom(classification_rules, i + 1, h, tags)

_classify_environment(cfg, h, tags) ==
    LET classification_rules ==
            Get(Get(cfg, "environment_detection", EmptyDict), "classification_rules", <<>>) IN
    IF Len(classification_rules) = 0 THEN "default"
    ELSE ClassifyFrom(classification_rules, 1, h, tags)

detect_environment(cfg, h) == _classify_environment(cfg, h, _detect_cloud_provider(cfg, h).tags)

-----------------------------------------------------------------------------
(* safety.py *)

prod       == <<"p","r","o","d">>
production == <<"p","r","o","d","u","c","t","i","o","n">>
prd        == <<"p","r","d">>

\* str.lower() on the values ENVIRONMENT / ENV take in this model
LowerEnv(v) == CASE v = "Test" -> "test" [] v = "PROD" -> "prod" [] OTHER -> v

_manual_environment_detection(h) ==
    LET env == LowerEnv(Get(h.environ, "ENVIRONMENT", Get(h.environ, "ENV", ""))) IN
    IF env # "" THEN env
    ELSE IF \E prod_id \in {prod, production, prd} : Contains(prod_id, lower(h.hostname))
         THEN "production"
         ELSE "default"

\* the environment type _get_environment_info returns, and the cache it leaves
DetectNow(cfg, h) ==
    IF Get(Get(cfg, "global", EmptyDict), "auto_detect_environment", TRUE)
    THEN detect_environment(cfg, h)
    ELSE _manual_environment_detection(h)

\* _get_environment_info detecting on every call
_get_environment_info_NoCache(cache, cfg, h) == DetectNow(cfg, h)

_get_environment_info(cache, cfg, h) == IF cache = None THEN DetectNow(cfg, h) ELSE cache

MemoryCeilingMb == 32768

\* the fallback policy of _get_environment_policy
SyntheticPolicy ==
    [enabled |-> FALSE, max_duration |-> 0, allowed_experiment_types |-> <<>>,
     protected_services |-> <<Star>>, require_confirmation |-> TRUE]

\* _get_environment_policy trying the default policy before the exact match
_get_environment_policy_DefaultFirst(cfg, environment_type) ==
    LET policies == Get(cfg, "environment_policies", EmptyDict) IN
    IF "default" \in DOMAIN policies THEN policies["default"]
    ELSE IF environment_type \in DOMAIN policies THEN policies[environment_type]
    ELSE SyntheticPolicy

_get_environment_policy(cfg, environment_type) ==
    LET policies == Get(cfg, "environment_policies", EmptyDict) IN
    IF environment_type \in DOMAIN policies THEN policies[environment_type]
    ELSE IF "default" \in DOMAIN policies THEN policies["default"]
    ELSE SyntheticPolicy

\* _is_protected_service letting discovery, when it is enabled, decide alone
_is_protected_service_DiscoveryDecides(service_name, policy, cfg, h) ==
    LET protected_services == Get(policy, "protected_services", <<>>)
        sd == Get(cfg, "service_discovery", EmptyDict)
    IN IF \/ Get(Get(sd, "kubernetes", EmptyDict), "enabled", FALSE)
          \/ Get(Get(sd, "consul", EmptyDict), "enabled", FALSE)
       THEN is_service_protected_by_discovery(service_name, sd, h)
       ELSE \/ InList(Star, protected_services)
            \/ \E i \in 1..Len(protected_services) :
                  Contains(protected_services[i], lower(service_name))

\* _is_protected_service without the wildcard test
_is_protected_service_NoWildcard(service_name, policy, cfg, h) ==
    LET protected_services == Get(policy, "protected_services", <<>>) IN
    \/ \E i \in 1..Len(protected_services) : Contains(protected_services[i], lower(service_name))
    \/ is_service_protected_by_discovery(service_name, Get(cfg, "service_discovery", EmptyDict), h)

_is_protected_service(service_name, policy, cfg, h) ==
    LET protected_services == Get(policy, "protected_services", <<>>) IN
    \/ InList(Star, protected_services)
    \/ \E i \in 1..Len(protected_services) : Contains(protected_services[i], lower(service_name))
    \/ is_service_protected_by_discovery(service_name, Get(cfg, "service_discovery", EmptyDict), h)

_check_experiment_parameters(exp, cfg) ==
    LET exp_type == Get(exp, "type", None)
        exp_safety_config == Get(cfg, "experiment_safety", EmptyDict)
    IN
    IF exp_type \notin DOMAIN exp_safety_config THEN <<>>
    ELSE LET type_config == exp_safety_config[exp_type] IN
         IF exp_type = "cpu_stress" THEN
             IF Get(exp, "intensity", 100) > Get(type_config, "max_intensity", 100)
             THEN <<"cpu_intensity_exceeded">> ELSE <<>>
         ELSE IF exp_type = "memory_exhaust" THEN
             IF Get(exp, "memory_mb", 0) > MemoryCeilingMb
             THEN <<"memory_amount_excessive">> ELSE <<>>
         ELSE IF exp_type = "network_latency" THEN
             (IF Get(exp, "latency_ms", 0) > Get(type_config, "max_latency_ms", 5000)
              THEN <<"network_latency_exceeded">> ELSE <<>>)
             \o
             (LET allowed_interfaces == Get(type_config, "allowed_interfaces", <<>>) IN
              IF Len(allowed_interfaces) > 0 /\ ~InList(Get(exp, "interface", ""), allowed_interfaces)
              THEN <<"interface_not_allowed">> ELSE <<>>)
         ELSE <<>>

\* the checks of is_safe_to_run, each giving the violations it appends

\* CheckEnabled with the default of the lookup turned around: .get("enabled", True)
CheckEnabled_DefaultTrue(policy) ==
    IF ~Get(policy, "enabled", TRUE) THEN <<"environment_disabled">> ELSE <<>>

\* if not policy.get("enabled", False)
CheckEnabled(policy) ==
    IF ~Get(policy, "enabled", FALSE) THEN <<"environment_disabled">> ELSE <<>>

\* if "*" not in allowed_types and exp_type not in allowed_types
CheckType(exp, policy) ==
    LET exp_type == Get(exp, "type", "unknown")
        allowed_types == Get(policy, "allowed_experiment_types", <<>>)
    IN IF ~InList("*", allowed_types) /\ ~InList(exp_type, allowed_types)
       THEN <<"experiment_type_forbidden">> ELSE <<>>

\* CheckDuration with >= for >
CheckDuration_AtLeast(exp, policy) ==
    IF Get(exp, "duration", 0) >= Get(policy, "max_duration", 0)
    THEN <<"duration_exceeded">> ELSE <<>>

\* if duration > max_duration
CheckDuration(exp, policy) ==
    IF Get(exp, "duration", 0) > Get(policy, "max_duration", 0)
    THEN <<"duration_exceeded">> ELSE <<>>

\* if self._is_protected_service(target_service, policy)
CheckProtected(exp, policy, cfg, h) ==
    LET target_service == Get(Get(exp, "target", EmptyDict), "service", unknown) IN
    IF _is_protected_service(target_service, policy, cfg, h)
    THEN <<"protected_service">> ELSE <<>>

\* Violations returning at the first check that fails
Violations_ShortCircuit(exp, cfg, environment_type, h) ==
    LET policy == _get_environment_policy(cfg, environment_type) IN
    IF CheckEnabled(policy) # <<>> THEN CheckEnabled(policy)
    ELSE IF CheckType(exp, policy) # <<>> THEN CheckType(exp, policy)
    ELSE IF CheckDuration(exp, policy) # <<>> THEN CheckDuration(exp, policy)
    ELSE IF CheckProtected(exp, policy, cfg, h) # <<>> THEN CheckProtected(exp, policy, cfg, h)
    ELSE _check_experiment_parameters(exp, cfg)

\* the violation list of is_safe_to_run, given the environment type
Violations(exp, cfg, environment_type, h) ==
    LET policy == _get_environment_policy(cfg, environment_type) IN
    CheckEnabled(policy) \o CheckType(exp, policy) \o CheckDuration(exp, policy)
    \o CheckProtected(exp, policy, cfg, h) \o _check_experiment_parameters(exp, cfg)

\* is_safe_to_run with is_safe computed before the parameter violations are added
is_safe_to_run_BeforeParameters(exp, cfg, environment_type, h) ==
    LET policy == _get_environment_policy(cfg, environment_type)
        checked == CheckEnabled(policy) \o CheckType(exp, policy) \o CheckDuration(exp, policy)
                   \o CheckProtected(exp, policy, cfg, h)
    IN <<Len(checked) = 0, Violations(exp, cfg, environment_type, h)>>

\* the tuple (is_safe, violations) is_safe_to_run returns
is_safe_to_run(exp, cfg, environment_type, h) ==
    LET violations == Violations(exp, cfg, environment_type, h) IN
    <<Len(violations) = 0, violations>>

\* before the first call of is_safe_to_run
NoDecision == <<FALSE, <<"not_evaluated">> >>

-----------------------------------------------------------------------------
(* experiments.py *)

MaxProcs   == 2      \* process ids Popen can hand out
MaxRunning == 2      \* registry length up to which start is exercised
Interfaces == {"eth0", "eth1"}
ProcIds    == 1..MaxProcs

\* a registry entry (exp_type, process_or_resource)
ProcessEntry(exp_type, p) == [exp_type |-> exp_type, process |-> p, interface |-> ""]
NetworkEntry(interface)   == [exp_type |-> "network_latency", process |-> 0, interface |-> interface]

\* results[exp_type] = status
SetItem(d, k, v) == [x \in DOMAIN d \cup {k} |-> IF x = k THEN v ELSE d[x]]

\* what one runner call did: the call, the type it was given, how it ended, the
\* result map it returned, the system commands it issued, the number of registry
\* entries whose reversal it attempted, the number of entries it found, and the
\* call before it with the way that one ended
NoCall == [op |-> "none", exp_type |-> None, raised |-> "none", results |-> EmptyDict,
           cmds |-> <<>>, attempted |-> 0, found |-> 0, prev_op |-> "none", prev_raised |-> "none"]

\* the outcomes the outside world can give one reversal
ReversalOutcomes(e) ==
    IF e.exp_type = "network_latency" THEN {"ok", "fail", "interrupt"}
    ELSE {"ok", "timeout", "interrupt"}

\* subprocess.Popen(stress-ng ...): the process ids not yet handed out
FreeProcs(ps) == {p \in ProcIds : ps[p] = "none"}
NewProc(ps)   == CHOOSE p \in FreeProcs(ps) : \A q \in FreeProcs(ps) : p <= q

\* _start_cpu_stress and _start_memory_exhaust; experiment['duration'] raises
\* KeyError before anything is launched.  st = [reg, procs, qdisc]
_start_process(exp_type, exp, out, st) ==
    IF "duration" \notin DOMAIN exp
    THEN [raised |-> "KeyError", cmds |-> <<>>, reg |-> st.reg, procs |-> st.procs, qdisc |-> st.qdisc]
    ELSE IF out = "ok"
    THEN [raised |-> "none", cmds |-> <<"Popen">>,
          reg |-> Append(st.reg, ProcessEntry(exp_type, NewProc(st.procs))),
          procs |-> [st.procs EXCEPT ![NewProc(st.procs)] = "running"], qdisc |-> st.qdisc]
    ELSE IF out = "fail"
    THEN [raised |-> "OSError", cmds |-> <<"Popen">>, reg |-> st.reg, procs |-> st.procs, qdisc |-> st.qdisc]
    ELSE \* KeyboardInterrupt inside Popen, or after it and before the append
         [raised |-> "KeyboardInterrupt", cmds |-> <<"Popen">>, reg |-> st.reg,
          procs |-> IF out = "interrupt_applied"
                    THEN [st.procs EXCEPT ![NewProc(st.procs)] = "running"] ELSE st.procs,
          qdisc |-> st.qdisc]

\* _start_network_latency with the entry recorded whether or not tc succeeded
_start_network_latency_RecordsAnyway(exp, out, st) ==
    LET interface == Get(exp, "interface", "eth0") IN
    IF out = "ok" /\ interface \notin st.qdisc
    THEN [raised |-> "none", cmds |-> <<"tc_add">>,
          reg |-> Append(st.reg, NetworkEntry(interface)),
          procs |-> st.procs, qdisc |-> st.qdisc \cup {interface}]
    ELSE IF out \in {"ok", "fail"}
    THEN [raised |-> "CalledProcessError", cmds |-> <<"tc_add">>,
          reg |-> Append(st.reg, NetworkEntry(interface)), procs |-> st.procs, qdisc |-> st.qdisc]
    ELSE [raised |-> "KeyboardInterrupt", cmds |-> <<"tc_add">>, reg |-> st.reg, procs |-> st.procs,
          qdisc |-> IF out = "interrupt_applied" THEN st.qdisc \cup {interface} ELSE st.qdisc]

\* _start_network_latency: tc qdisc add ... with check=True; tc refuses to add a
\* root qdisc to an interface that already carries the netem one
_start_network_latency(exp, out, st) ==
    LET interface == Get(exp, "interface", "eth0") IN
    IF out = "ok" /\ interface \notin st.qdisc
    THEN [raised |-> "none", cmds |-> <<"tc_add">>,
          reg |-> Append(st.reg, NetworkEntry(interface)),
          procs |-> st.procs, qdisc |-> st.qdisc \cup {interface}]
    ELSE IF out \in {"ok", "fail"}
    THEN [raised |-> "CalledProcessError", cmds |-> <<"tc_add">>,
          reg |-> st.reg, procs |-> st.procs, qdisc |-> st.qdisc]
    ELSE [raised |-> "KeyboardInterrupt", cmds |-> <<"tc_add">>, reg |-> st.reg, procs |-> st.procs,
          qdisc |-> IF out = "interrupt_applied" THEN st.qdisc \cup {interface} ELSE st.qdisc]

\* start with the final else dispatching to the cpu stress injector
start_UnknownRunsCpu(exp, out, st) ==
    LET experiment_type == exp["type"] IN
    IF experiment_type = "memory_exhaust" THEN _start_process("memory_exhaust", exp, out, st)
    ELSE IF experiment_type = "network_latency" THEN _start_network_latency(exp, out, st)
    ELSE _start_process("cpu_stress", exp, out, st)

\* ExperimentRunner.start
start(exp, out, st) ==
    LET experiment_type == exp["type"] IN
    IF experiment_type = "cpu_stress" THEN _start_process("cpu_stress", exp, out, st)
    ELSE IF experiment_type = "memory_exhaust" THEN _start_process("memory_exhaust", exp, out, st)
    ELSE IF experiment_type = "network_latency" THEN _start_network_latency(exp, out, st)
    ELSE [raised |-> "ValueError", cmds |-> <<>>, reg |-> st.reg, procs |-> st.procs, qdisc |-> st.qdisc]

\* the body of the loop of ExperimentRunner.stop for entry e, the outside world
\* answering out.  st = [raised, reg, procs, qdisc, results, cmds, attempted]

\* tc qdisc del dev <interface> root, check=True: tc fails when the interface
\* carries no such qdisc
ReverseNetwork(e, out, st) ==
    LET issued == [st EXCEPT !.cmds = Append(@, "tc_del")] IN
    IF out = "interrupt" THEN [issued EXCEPT !.raised = "KeyboardInterrupt"]
    ELSE IF out = "ok" /\ e.interface \in st.qdisc
    THEN [issued EXCEPT !.qdisc = @ \ {e.interface},
                        !.results = SetItem(@, e.exp_type, "completed")]
    ELSE [issued EXCEPT !.raised = "CalledProcessError"]

\* ReverseProcess without process.kill() in the TimeoutExpired handler
ReverseProcess_NoKill(e, out, st) ==
    LET issued == [st EXCEPT !.cmds = Append(@, "terminate")] IN
    IF st.procs[e.process] # "running"
    THEN [issued EXCEPT !.results = SetItem(@, e.exp_type, "completed")]
    ELSE IF out = "interrupt" THEN [issued EXCEPT !.raised = "KeyboardInterrupt"]
    ELSE IF out = "timeout"
    THEN [issued EXCEPT !.results = SetItem(@, e.exp_type, "force_killed")]
    ELSE [issued EXCEPT !.procs = [@ EXCEPT ![e.process] = "exited"],
                        !.results = SetItem(@, e.exp_type, "completed")]

\* ReverseProcess with process.kill() after the wait whether or not it timed out
ReverseProcess_KillAlways(e, out, st) ==
    LET issued == [st EXCEPT !.cmds = Append(@, "terminate")] IN
    IF st.procs[e.process] # "running"
    THEN [issued EXCEPT !.results = SetItem(@, e.exp_type, "completed")]
    ELSE IF out = "interrupt" THEN [issued EXCEPT !.raised = "KeyboardInterrupt"]
    ELSE [issued EXCEPT !.cmds = Append(@, "kill"),
                        !.procs = [@ EXCEPT ![e.process] = "killed"],
                        !.results = SetItem(@, e.exp_type,
                                            IF out = "timeout" THEN "force_killed" ELSE "completed")]

\* process.terminate(); process.wait(timeout=5); on TimeoutExpired process.kill()
ReverseProcess(e, out, st) ==
    LET issued == [st EXCEPT !.cmds = Append(@, "terminate")] IN
    IF st.procs[e.process] # "running"
    THEN \* already gone: terminate() does nothing and wait() returns at once
         [issued EXCEPT !.results = SetItem(@, e.exp_type, "completed")]
    ELSE IF out = "interrupt" THEN [issued EXCEPT !.raised = "KeyboardInterrupt"]
    ELSE IF out = "timeout"
    THEN [issued EXCEPT !.cmds = Append(@, "kill"),
                        !.procs = [@ EXCEPT ![e.process] = "killed"],
                        !.results = SetItem(@, e.exp_type, "force_killed")]
    ELSE [issued EXCEPT !.procs = [@ EXCEPT ![e.process] = "exited"],
                        !.results = SetItem(@, e.exp_type, "completed")]

Reverse(e, out, st) ==
    IF e.exp_type = "network_latency" THEN ReverseNetwork(e, out, st)
    ELSE ReverseProcess(e, out, st)

\* StopFrom clearing the registry on the way out of an exception too
RECURSIVE StopFrom_ClearsAlways(_, _, _, _)
StopFrom_ClearsAlways(reg, i, outs, st) ==
    IF st.raised # "none" THEN [st EXCEPT !.reg = <<>>]
    ELSE IF i > Len(reg) THEN [st EXCEPT !.reg = <<>>]
    ELSE StopFrom_ClearsAlways(reg, i + 1, outs,
                               Reverse(reg[i], outs[i], [st EXCEPT !.attempted = i]))

\* ExperimentRunner.stop from entry i of the loop on: an exception leaves the
\* function at once; after the loop the registry is cleared and the map returned
RECURSIVE StopFrom(_, _, _, _)
StopFrom(reg, i, outs, st) ==
    IF st.raised # "none" THEN st
    ELSE IF i > Len(reg) THEN [st EXCEPT !.reg = <<>>]
    ELSE StopFrom(reg, i + 1, outs, Reverse(reg[i], outs[i], [st EXCEPT !.attempted = i]))

\* ExperimentRunner.stop
stop(reg, outs, ps, qd) ==
    StopFrom(reg, 1, outs,
             [raised |-> "none", reg |-> reg, procs |-> ps, qdisc |-> qd,
              results |-> EmptyDict, cmds |-> <<>>, attempted |-> 0])

\* ExperimentRunner.emergency_stop: stop(), its result map dropped
emergency_stop(reg, outs, ps, qd) == [stop(reg, outs, ps, qd) EXCEPT !.results = EmptyDict]

\* the per-entry outcomes the outside world can give a stop of registry reg
StopOutcomes(reg) == {outs \in [1..Len(reg) -> {"ok", "fail", "timeout", "interrupt"}] :
                        \A i \in 1..Len(reg) : outs[i] \in ReversalOutcomes(reg[i])}

\* the requests the runner is driven with
RunnerRequests ==
    {[type |-> t, duration |-> 60] : t \in {"cpu_stress", "memory_exhaust", "unknown_type"}}
    \cup {[type |-> "cpu_stress"]}
    \cup {[type |-> "network_latency", duration |-> 60],
          [type |-> "network_latency", duration |-> 60, interface |-> "eth1"]}

\* what the outside world can answer a start: the command works, it fails, or
\* the user interrupts it with the side effect not yet or already in place
StartOutcomes == {"ok", "fail", "interrupt", "interrupt_applied"}

(* actions of the runner driven directly *)

RunnerStart(exp, out) ==
    /\ Len(running_experiments) < MaxRunning
    /\ FreeProcs(procs) # {}
    /\ \E r \in {start(exp, out, [reg |-> running_experiments, procs |-> procs, qdisc |-> qdisc])} :
       /\ running_experiments' = r.reg
       /\ procs' = r.procs
       /\ qdisc' = r.qdisc
       /\ last' = [op |-> "start", exp_type |-> exp["type"], raised |-> r.raised,
                   results |-> EmptyDict, cmds |-> r.cmds, attempted |-> 0,
                   found |-> Len(running_experiments),
                   prev_op |-> last.op, prev_raised |-> last.raised]
    /\ UNCHANGED <<safetyVars, flowVars, experiment, serviceVars>>

RunnerStop(outs) ==
    /\ \E r \in {stop(running_experiments, outs, procs, qdisc)} :
       /\ running_experiments' = r.reg
       /\ procs' = r.procs
       /\ qdisc' = r.qdisc
       /\ last' = [op |-> "stop", exp_type |-> None, raised |-> r.raised, results |-> r.results,
                   cmds |-> r.cmds, attempted |-> r.attempted, found |-> Len(running_experiments),
                   prev_op |-> last.op, prev_raised |-> last.raised]
    /\ UNCHANGED <<safetyVars, flowVars, experiment, serviceVars>>

RunnerEmergencyStop(outs) ==
    /\ \E r \in {emergency_stop(running_experiments, outs, procs, qdisc)} :
       /\ running_experiments' = r.reg
       /\ procs' = r.procs
       /\ qdisc' = r.qdisc
       /\ last' = [op |-> "emergency_stop", exp_type |-> None, raised |-> r.raised,
                   results |-> r.results, cmds |-> r.cmds, attempted |-> r.attempted,
                   found |-> Len(running_experiments),
                   prev_op |-> last.op, prev_raised |-> last.raised]
    /\ UNCHANGED <<safetyVars, flowVars, experiment, serviceVars>>

\* a stress-ng process ends by itself (its --timeout, or a crash)
ProcessExits(p) ==
    /\ procs[p] = "running"
    /\ procs' = [procs EXCEPT ![p] = "exited"]
    /\ UNCHANGED <<safetyVars, flowVars, experiment, running_experiments, qdisc, last, serviceVars>>

-----------------------------------------------------------------------------
(* chaos_framework.run_experiment and chaos_controller.main *)

\* bool(x) of a tuple: a tuple is true when it is not empty
Truthy(t) == Len(t) > 0

\* run_experiment unpacks the tuple and tests is_safe; main tests the tuple itself
SafetyRejects(ep, d) ==
    IF ep = "run_experiment" THEN ~d[1] ELSE ~Truthy(d)

\* which except clause, if any, takes an exception raised inside the try block
Handler(ep, raised) ==
    IF raised = "KeyboardInterrupt"
    THEN IF ep = "run_experiment" THEN "except_interrupt" ELSE "uncaught"
    ELSE "except_error"

\* the value the flow returns after emergency_stop returned
HandlerExit(ep, at) ==
    IF ep = "main" THEN 0 ELSE IF at = "except_interrupt" THEN 130 ELSE 1

NotStarted == [start_called |-> FALSE, stop_called |-> FALSE, estop_invoked |-> FALSE,
               raised_in_try |-> "none", ended |-> "no", exit_code |-> -1]

Return(code) == [flow EXCEPT !.ended = "returned", !.exit_code = code]
Propagate(f) == [f EXCEPT !.ended = "raised"]

\* an exception leaves the try block: to its handler, or out of the flow
Raise(f, raised) ==
    IF Handler(entry, raised) = "uncaught"
    THEN /\ pc' = "done"
         /\ flow' = Propagate([f EXCEPT !.raised_in_try = raised])
    ELSE /\ pc' = Handler(entry, raised)
         /\ flow' = [f EXCEPT !.raised_in_try = raised]

\* safety.is_safe_to_run(experiment) and the test of its result
FlowSafetyCheck ==
    /\ pc = "safety"
    /\ LET environment_type == _get_environment_info(environment_cache, config, host)
           d == is_safe_to_run(experiment, config, environment_type, host)
       IN /\ environment_cache' = environment_type
          /\ decision' = d
          /\ IF SafetyRejects(entry, d)
             THEN /\ pc' = "done"
                  /\ flow' = Return(IF entry = "run_experiment" THEN 1 ELSE 0)
             ELSE /\ pc' = "dry_run"
                  /\ UNCHANGED flow
    /\ UNCHANGED <<config, host, experiment, runnerVars, entry, dry_run, serviceVars>>

\* FlowDryRunCheck with the flag not looked at
FlowDryRunCheck_FlagIgnored ==
    /\ pc = "dry_run"
    /\ pc' = "start"
    /\ UNCHANGED <<flow, safetyVars, experiment, runnerVars, entry, dry_run, serviceVars>>

\* if args.dry_run: return
FlowDryRunCheck ==
    /\ pc = "dry_run"
    /\ IF dry_run
       THEN /\ pc' = "done"
            /\ flow' = Return(0)
       ELSE /\ pc' = "start"
            /\ UNCHANGED flow
    /\ UNCHANGED <<safetyVars, experiment, runnerVars, entry, dry_run, serviceVars>>

\* runner.start(experiment)
FlowStart(out) ==
    /\ pc = "start"
    /\ \E r \in {start(experiment, out, [reg |-> running_experiments, procs |-> procs, qdisc |-> qdisc])} :
       LET f == [flow EXCEPT !.start_called = TRUE]
       IN /\ running_experiments' = r.reg
          /\ procs' = r.procs
          /\ qdisc' = r.qdisc
          /\ last' = [op |-> "start", exp_type |-> experiment["type"], raised |-> r.raised,
                      results |-> EmptyDict, cmds |-> r.cmds, attempted |-> 0,
                      found |-> Len(running_experiments),
                   prev_op |-> last.op, prev_raised |-> last.raised]
          /\ IF r.raised = "none"
             THEN pc' = "sleep" /\ flow' = f
             ELSE Raise(f, r.raised)
    /\ UNCHANGED <<safetyVars, experiment, entry, dry_run, serviceVars>>

\* time.sleep(experiment['duration'])
FlowSleep(out) ==
    /\ pc = "sleep"
    /\ IF "duration" \notin DOMAIN experiment THEN Raise(flow, "KeyError")
       ELSE IF out = "interrupt" THEN Raise(flow, "KeyboardInterrupt")
       ELSE pc' = "stop" /\ UNCHANGED flow
    /\ UNCHANGED <<safetyVars, experiment, runnerVars, entry, dry_run, serviceVars>>

\* results = runner.stop()
FlowStop(outs) ==
    /\ pc = "stop"
    /\ \E r \in {stop(running_experiments, outs, procs, qdisc)} :
       LET f == [flow EXCEPT !.stop_called = TRUE]
       IN /\ running_experiments' = r.reg
          /\ procs' = r.procs
          /\ qdisc' = r.qdisc
          /\ last' = [op |-> "stop", exp_type |-> None, raised |-> r.raised, results |-> r.results,
                      cmds |-> r.cmds, attempted |-> r.attempted, found |-> Len(running_experiments),
                   prev_op |-> last.op, prev_raised |-> last.raised]
          /\ IF r.raised # "none" THEN Raise(f, r.raised)
             ELSE IF entry = "run_experiment" THEN pc' = "report" /\ flow' = f
             ELSE pc' = "done" /\ flow' = [f EXCEPT !.ended = "returned", !.exit_code = 0]
    /\ UNCHANGED <<safetyVars, experiment, entry, dry_run, serviceVars>>

\* run_experiment only: the comparison with the baseline and the report, which
\* can raise inside the try block
FlowReport(out) ==
    /\ pc = "report"
    /\ IF out = "ok" THEN pc' = "done" /\ flow' = Return(0)
       ELSE Raise(flow, "Exception")
    /\ UNCHANGED <<safetyVars, experiment, runnerVars, entry, dry_run, serviceVars>>

\* the except clauses: runner.emergency_stop(), then the return
FlowEmergencyStop(outs) ==
    /\ pc \in {"except_interrupt", "except_error"}
    /\ \E r \in {emergency_stop(running_experiments, outs, procs, qdisc)} :
       LET f == [flow EXCEPT !.estop_invoked = TRUE]
       IN /\ running_experiments' = r.reg
          /\ procs' = r.procs
          /\ qdisc' = r.qdisc
          /\ last' = [op |-> "emergency_stop", exp_type |-> None, raised |-> r.raised,
                      results |-> r.results, cmds |-> r.cmds, attempted |-> r.attempted,
                      found |-> Len(running_experiments),
                   prev_op |-> last.op, prev_raised |-> last.raised]
          /\ pc' = "done"
          /\ flow' = IF r.raised = "none"
                     THEN [f EXCEPT !.ended = "returned", !.exit_code = HandlerExit(entry, pc)]
                     ELSE Propagate(f)
    /\ UNCHANGED <<safetyVars, experiment, entry, dry_run, serviceVars>>

-----------------------------------------------------------------------------
(* monitoring.py *)

\* the values a metric takes and the snapshots _get_current_metrics returns; the
\* empty snapshot is also what it returns when the monitoring system fails.
\* With these values (value - baseline) / baseline * 100 is a whole number, so
\* the float arithmetic is exact and integer division computes it
MetricNames     == {"http_requests_total", "latency_ms"}
MetricValues    == {0, 50, 100}
MetricSnapshots == UNION {[keys -> MetricValues] : keys \in SUBSET MetricNames}

\* ((value - baseline) / baseline * 100), for baseline # 0
ChangePercent(value, baseline) == ((value - baseline) * 100) \div baseline

\* MonitoringClient.compare_with_baseline: the division raises ZeroDivisionError
\* on the first metric of both snapshots whose baseline is 0
compare_with_baseline(baseline, current) ==
    LET both == DOMAIN current \cap DOMAIN baseline IN
    IF \E metric \in both : baseline[metric] = 0
    THEN [called |-> TRUE, baseline |-> baseline, current |-> current,
          raised |-> "ZeroDivisionError", value |-> EmptyDict]
    ELSE [called |-> TRUE, baseline |-> baseline, current |-> current, raised |-> "none",
          value |-> [metric \in both |->
                        [baseline |-> baseline[metric], current |-> current[metric],
                         change_percent |-> ChangePercent(current[metric], baseline[metric])]]]

NoComparison ==
    [called |-> FALSE, baseline |-> EmptyDict, current |-> EmptyDict, raised |-> "none",
     value |-> EmptyDict]

MonitoringIdle ==
    /\ baseline_metrics = EmptyDict
    /\ comparison = NoComparison

\* MonitoringClient.capture_baseline, the monitoring system answering m
CaptureBaseline(m) ==
    /\ baseline_metrics' = m
    /\ UNCHANGED <<comparison, dashboardVars, safetyVars, experiment, runnerVars, flowVars>>

\* MonitoringClient.compare_with_baseline, the monitoring system answering m
CompareWithBaseline(m) ==
    /\ comparison' = compare_with_baseline(baseline_metrics, m)
    /\ UNCHANGED <<baseline_metrics, dashboardVars, safetyVars, experiment, runnerVars, flowVars>>

-----------------------------------------------------------------------------
(* dashboard_server.py *)

\* The server runs on one asyncio event loop: a task runs alone from one await
\* to the next, and any other task may run while it is suspended.  Each action
\* below is the code of one task between two of its awaits.
Sockets   == {"ws1", "ws2"}
LoopTasks == {"loop1", "loop2"}
Tasks     == Sockets \cup LoopTasks

NoBroadcast ==
    [active |-> FALSE, n |-> 0, targets |-> {}, visited |-> {}, disconnected |-> {}, got |-> {}]

DashboardIdle ==
    /\ clients = {}
    /\ streaming = FALSE
    /\ conn = [c \in Sockets |-> "open"]
    /\ handler = [c \in Sockets |-> "absent"]
    /\ loop = [l \in LoopTasks |-> "none"]
    /\ bc = [t \in Tasks |-> NoBroadcast]
    /\ polled = {}

\* the loop tasks asyncio.create_task can still make, the one it makes next,
\* and the handlers that are on their way to make one
FreeLoops == {l \in LoopTasks : loop[l] = "none"}
NewLoop   == IF "loop1" \in FreeLoops THEN "loop1" ELSE "loop2"
Starting  == {c \in Sockets : handler[c] = "start_bc"}

\* broadcast, one pass of its for loop: await client.send(...) delivers, or
\* raises ConnectionClosed and the client is appended to disconnected
Send(b, client) ==
    IF conn[client] = "open"
    THEN [b EXCEPT !.visited = @ \cup {client}, !.got = @ \cup {client}]
    ELSE [b EXCEPT !.visited = @ \cup {client}, !.disconnected = @ \cup {client}]

\* broadcast up to its first await: the iterator over self.clients is made
\* (it remembers the size of the set) and the first client is sent to
BeginBroadcast(first) ==
    Send([active |-> TRUE, n |-> Cardinality(clients), targets |-> clients,
          visited |-> {}, disconnected |-> {}, got |-> {}], first)

\* the caller of broadcast going on after it returned: start_metrics_streaming
\* creates the loop task, stop_metrics_streaming is done, the loop sleeps
Returns(t, from) ==
    CASE from = "start" ->
            /\ loop' = [loop EXCEPT ![NewLoop] = "created"]
            /\ handler' = [handler EXCEPT ![t] = "idle"]
      [] from = "stop" ->
            /\ handler' = [handler EXCEPT ![t] = "idle"]
            /\ UNCHANGED loop
      [] from = "loop" ->
            /\ loop' = [loop EXCEPT ![t] = "sleep"]
            /\ UNCHANGED handler

\* the caller of broadcast when broadcast raised: the loop catches Exception
\* and sleeps; handle_client_message and client_handler catch neither, so the
\* handler task runs its finally (unregister_client) and ends
Raises(t) ==
    IF t \in LoopTasks
    THEN /\ loop' = [loop EXCEPT ![t] = "sleep"]
         /\ UNCHANGED <<handler, clients>>
    ELSE /\ handler' = [handler EXCEPT ![t] = "gone"]
         /\ clients' = clients \ {t}
         /\ UNCHANGED loop

\* client_handler up to its async for: register_client
Connect(c) ==
    /\ handler[c] = "absent"
    /\ clients' = clients \cup {c}
    /\ handler' = [handler EXCEPT ![c] = "idle"]
    /\ UNCHANGED <<streaming, conn, loop, bc, polled>>
    /\ UNCHANGED <<monitoringVars, safetyVars, experiment, runnerVars, flowVars>>

\* the peer of a websocket goes away
PeerCloses(c) ==
    /\ handler[c] \notin {"absent", "gone"}
    /\ conn[c] = "open"
    /\ conn' = [conn EXCEPT ![c] = "closed"]
    /\ UNCHANGED <<clients, streaming, handler, loop, bc, polled>>
    /\ UNCHANGED <<monitoringVars, safetyVars, experiment, runnerVars, flowVars>>

\* client_handler: the async for ends on the closed connection, finally
\* unregister_client
HandlerEnds(c) ==
    /\ handler[c] = "idle"
    /\ conn[c] = "closed"
    /\ clients' = clients \ {c}
    /\ handler' = [handler EXCEPT ![c] = "gone"]
    /\ UNCHANGED <<streaming, conn, loop, bc, polled>>
    /\ UNCHANGED <<monitoringVars, safetyVars, experiment, runnerVars, flowVars>>

\* handle_client_message, action start_metrics_stream: start_metrics_streaming
\* up to the first await of its broadcast
ClientStart(c) ==
    /\ handler[c] = "idle"
    /\ IF streaming
       THEN UNCHANGED dashboardVars
       ELSE /\ Cardinality(FreeLoops) > Cardinality(Starting)
            /\ streaming' = TRUE
            /\ polled' = {}
            /\ IF clients = {}
               THEN /\ Returns(c, "start")
                    /\ UNCHANGED bc
               ELSE /\ \E first \in clients : bc' = [bc EXCEPT ![c] = BeginBroadcast(first)]
                    /\ handler' = [handler EXCEPT ![c] = "start_bc"]
                    /\ UNCHANGED loop
            /\ UNCHANGED <<clients, conn>>
    /\ UNCHANGED <<monitoringVars, safetyVars, experiment, runnerVars, flowVars>>

\* handle_client_message, action stop_metrics_stream: stop_metrics_streaming
\* up to the first await of its broadcast
ClientStop(c) ==
    /\ handler[c] = "idle"
    /\ streaming' = FALSE
    /\ IF clients = {}
       THEN UNCHANGED <<bc, handler>>
       ELSE /\ \E first \in clients : bc' = [bc EXCEPT ![c] = BeginBroadcast(first)]
            /\ handler' = [handler EXCEPT ![c] = "stop_bc"]
    /\ UNCHANGED <<clients, conn, loop, polled>>
    /\ UNCHANGED <<monitoringVars, safetyVars, experiment, runnerVars, flowVars>>

\* broadcast resumed after an await: the for loop asks the set iterator for
\* the next client.  The iterator raises RuntimeError when the set has another
\* size than when the iteration began; over a set of the same size but other
\* members it may or may not come upon the new members.  After the loop the
\* disconnected clients are unregistered, with no await in between
BroadcastStep(t) ==
    /\ bc[t].active
    /\ \E b \in {bc[t]} :
       IF Cardinality(clients) # b.n
       THEN /\ Raises(t)
            /\ bc' = [bc EXCEPT ![t] = NoBroadcast]
            /\ UNCHANGED <<streaming, conn, polled>>
       ELSE \/ /\ \E client \in clients \ b.visited : bc' = [bc EXCEPT ![t] = Send(b, client)]
               /\ UNCHANGED <<clients, streaming, conn, handler, loop, polled>>
            \/ /\ clients \ b.visited = {} \/ clients # b.targets
               /\ clients' = clients \ b.disconnected
               /\ bc' = [bc EXCEPT ![t] = NoBroadcast]
               /\ Returns(t, IF t \in LoopTasks THEN "loop"
                             ELSE IF handler[t] = "start_bc" THEN "start" ELSE "stop")
               /\ UNCHANGED <<streaming, conn, polled>>
    /\ UNCHANGED <<monitoringVars, safetyVars, experiment, runnerVars, flowVars>>

\* metrics_collection_loop from its creation or from the end of a sleep: the
\* while test, then the poll and the broadcast up to its first await
LoopIterate(l) ==
    /\ loop[l] \in {"created", "sleep"}
    /\ IF ~streaming
       THEN /\ loop' = [loop EXCEPT ![l] = "ended"]
            /\ UNCHANGED <<bc, polled>>
       ELSE /\ polled' = polled \cup {l}
            /\ IF clients = {}
               THEN /\ loop' = [loop EXCEPT ![l] = "sleep"]
                    /\ UNCHANGED bc
               ELSE /\ \E first \in clients : bc' = [bc EXCEPT ![l] = BeginBroadcast(first)]
                    /\ loop' = [loop EXCEPT ![l] = "bc"]
    /\ UNCHANGED <<clients, streaming, conn, handler>>
    /\ UNCHANGED <<monitoringVars, safetyVars, experiment, runnerVars, flowVars>>

-----------------------------------------------------------------------------
(* the inputs the model is run on *)

web              == <<"w","e","b">>
database         == <<"d","a","t","a","b","a","s","e">>
Database         == <<"D","a","t","a","b","a","s","e">>
database_primary == <<"d","a","t","a","b","a","s","e","-","p","r","i","m","a","r","y">>
Database_Primary == <<"D","a","t","a","b","a","s","e","-","P","r","i","m","a","r","y">>
test_web_01      == <<"t","e","s","t","-","w","e","b","-","0","1">>
prod_db_01       == <<"P","r","o","d","-","d","b","-","0","1">>
test_star        == <<"t","e","s","t","-","*">>

\* a dict with the keys of `keys` taken from record r
Restrict(r, keys) == [k \in keys |-> r[k]]

\* the policy returned by _load_config when no file is found
MinimalDefaultPolicy ==
    [enabled |-> FALSE, max_duration |-> 300, allowed_experiment_types |-> <<>>,
     protected_services |-> <<Star>>, require_confirmation |-> TRUE]

MinimalDefaultConfig ==
    [global |-> [max_duration |-> 300, auto_detect_environment |-> FALSE],
     environment_policies |-> [default |-> MinimalDefaultPolicy]]

\* policies, each field present or not
PolicyFields == {"enabled", "max_duration", "allowed_experiment_types", "protected_services"}

Policies ==
    {Restrict([enabled |-> en, max_duration |-> md, allowed_experiment_types |-> al,
               protected_services |-> pr], keys) :
        en \in BOOLEAN, md \in {0, 600}, al \in {<<"cpu_stress">>, <<"*">>},
        pr \in {<<>>, <<database>>, <<Database>>},
        keys \in {PolicyFields, PolicyFields \ {"enabled"}, PolicyFields \ {"max_duration"}}}
    \cup {SyntheticPolicy, MinimalDefaultPolicy}

ExperimentSafety ==
    [cpu_stress |-> [max_intensity |-> 80],
     memory_exhaust |-> [max_percentage |-> 50],
     network_latency |-> [max_latency_ms |-> 1000, allowed_interfaces |-> <<"eth0">>]]

ServiceDiscoveryOn ==
    [kubernetes |-> [enabled |-> TRUE],
     consul |-> [enabled |-> TRUE, protected_service_tags |-> <<"critical">>]]

\* rule 1 matches the hostname test-*, rule 2 the variable ENV=test
EnvironmentDetection ==
    [cloud_providers |-> << [provider |-> "aws", config |-> [metadata_url |-> "url"]],
                            [provider |-> "gcp", config |-> [metadata_url |-> "url"]] >>,
     classification_rules |->
        << [name |-> "test", patterns |-> [hostname |-> <<test_star>>]],
           [name |-> "staging",
            patterns |-> [environment_vars |-> << [has_eq |-> TRUE, key |-> "ENV", value |-> "test"] >>,
                          cloud_tags |-> << [has_eq |-> TRUE, key |-> "Environment", value |-> "staging"] >>]] >>]

\* configurations: manual detection, with and without a default policy and the
\* optional sections; and one with automatic detection
Configs ==
    {[global |-> [auto_detect_environment |-> FALSE],
      environment_policies |-> [test |-> p, default |-> MinimalDefaultPolicy]] : p \in Policies}
    \cup {[global |-> [auto_detect_environment |-> FALSE],
           environment_policies |-> [default |-> p],
           experiment_safety |-> ExperimentSafety,
           service_discovery |-> ServiceDiscoveryOn] : p \in Policies}
    \cup {[environment_policies |-> [test |-> p],
           environment_detection |-> EnvironmentDetection] : p \in Policies}
    \cup {MinimalDefaultConfig, [global |-> [auto_detect_environment |-> FALSE]]}

ConsulDown == [status |-> "timeout", services |-> <<>>]
ConsulUp   == [status |-> "ok",
               services |-> << [name |-> web, tags |-> <<"critical">>, iterable |-> TRUE] >>]

CloudDown == [aws |-> [status |-> "fail", tags |-> EmptyDict],
              gcp |-> [status |-> "fail", tags |-> EmptyDict],
              azure |-> [status |-> "fail", tags |-> EmptyDict]]
CloudAws  == [CloudDown EXCEPT !.aws = [status |-> "ok", tags |-> [Environment |-> "staging"]]]

CloudGcp  == [CloudDown EXCEPT !.gcp = [status |-> "ok", tags |-> EmptyDict]]

Hosts ==
    {[environ |-> ev, hostname |-> hn, k8s_marker |-> FALSE, consul |-> ConsulDown, cloud |-> CloudDown] :
        ev \in {EmptyDict, [ENVIRONMENT |-> "test"], [ENV |-> "Test"], [ENV |-> "test"]},
        hn \in {test_web_01, prod_db_01}}
    \cup {[environ |-> [ENVIRONMENT |-> "test"], hostname |-> test_web_01, k8s_marker |-> TRUE,
           consul |-> ConsulUp, cloud |-> CloudAws],
          [environ |-> EmptyDict, hostname |-> test_web_01, k8s_marker |-> FALSE,
           consul |-> ConsulDown, cloud |-> CloudGcp]}

RequestFields == {"name", "type", "duration", "target", "intensity", "interface", "latency_ms", "memory_mb"}

Requests ==
    {Restrict([name |-> "experiment", type |-> t, duration |-> d, target |-> [service |-> sv],
               intensity |-> 90, interface |-> "eth1", latency_ms |-> 100, memory_mb |-> 1024], keys) :
        t \in {"cpu_stress", "memory_exhaust", "network_latency", "unknown_type"},
        d \in {300, 600, 601, 900},
        sv \in {web, Database_Primary},
        keys \in {{"name", "type", "duration", "target"}, {"name", "type"}, RequestFields}}
    \cup {[name |-> "experiment", type |-> "cpu_stress", duration |-> 300,
            target |-> [service |-> web, environment |-> e]] : e \in {"production", "prod-east", "test"}}
    \cup {[name |-> "experiment", type |-> "memory_exhaust", duration |-> 300,
            target |-> [service |-> web], memory_mb |-> 40000]}

\* the run flows are driven with a few of them
FlowConfigs ==
    {[global |-> [auto_detect_environment |-> FALSE],
      environment_policies |->
          [test |-> [enabled |-> TRUE, max_duration |-> 600,
                     allowed_experiment_types |-> <<"*">>,
                     protected_services |-> <<database>>],
           default |-> MinimalDefaultPolicy]]}

FlowHosts == {h \in Hosts : h.hostname = test_web_01 /\ ~h.k8s_marker /\ h.cloud = CloudDown
                            /\ h.environ \in {EmptyDict, [ENVIRONMENT |-> "test"]}}

FlowRequests ==
    {r \in Requests : /\ Get(Get(r, "target", EmptyDict), "service", unknown) = web
                      /\ Get(r, "duration", 300) \in {300, 900}
                      /\ DOMAIN r # RequestFields}
    \cup {[name |-> "experiment", type |-> "network_latency", duration |-> 300,
           target |-> [service |-> web], interface |-> "eth0"]}

-----------------------------------------------------------------------------
(* specifications *)

RunnerIdle ==
    /\ running_experiments = <<>>
    /\ procs = [p \in ProcIds |-> "none"]
    /\ qdisc = {}
    /\ last = NoCall

FlowIdle ==
    /\ entry = "run_experiment"
    /\ dry_run = FALSE
    /\ pc = "idle"
    /\ flow = NotStarted

ServiceIdle ==
    /\ MonitoringIdle
    /\ DashboardIdle

\* the run flows: a process started by either entry point
Init ==
    /\ config \in FlowConfigs
    /\ host \in FlowHosts
    /\ environment_cache = None
    /\ experiment \in FlowRequests
    /\ decision = NoDecision
    /\ RunnerIdle
    /\ entry \in {"run_experiment", "main"}
    /\ dry_run \in BOOLEAN
    /\ pc = "safety"
    /\ flow = NotStarted
    /\ ServiceIdle

Next ==
    \/ FlowSafetyCheck
    \/ FlowDryRunCheck
    \/ \E out \in StartOutcomes : FlowStart(out)
    \/ \E out \in {"ok", "interrupt"} : FlowSleep(out)
    \/ \E outs \in StopOutcomes(running_experiments) : FlowStop(outs)
    \/ \E out \in {"ok", "error"} : FlowReport(out)
    \/ \E outs \in StopOutcomes(running_experiments) : FlowEmergencyStop(outs)
    \/ \E p \in ProcIds : ProcessExits(p)

Spec == Init /\ [][Next]_vars

\* the runner driven directly, as its tests drive it
RunnerInit ==
    /\ config = MinimalDefaultConfig
    /\ host \in {h \in FlowHosts : h.environ = EmptyDict}
    /\ environment_cache = None
    /\ experiment = [name |-> "experiment", type |-> "cpu_stress", duration |-> 60]
    /\ decision = NoDecision
    /\ RunnerIdle
    /\ FlowIdle
    /\ ServiceIdle

RunnerNext ==
    \/ \E exp \in RunnerRequests, out \in {"ok", "fail"} : RunnerStart(exp, out)
    \/ \E outs \in StopOutcomes(running_experiments) : RunnerStop(outs)
    \/ \E outs \in StopOutcomes(running_experiments) : RunnerEmergencyStop(outs)
    \/ \E p \in ProcIds : ProcessExits(p)

RunnerSpec == RunnerInit /\ [][RunnerNext]_vars

\* the safety checker evaluating requests
Evaluate ==
    /\ LET environment_type == _get_environment_info(environment_cache, config, host) IN
       /\ environment_cache' = environment_type
       /\ decision' = is_safe_to_run(experiment, config, environment_type, host)
    /\ UNCHANGED <<config, host, experiment, runnerVars, flowVars, serviceVars>>

SafetyInit ==
    /\ config \in Configs
    /\ host \in Hosts
    /\ environment_cache = None
    /\ experiment \in Requests
    /\ decision = NoDecision
    /\ RunnerIdle
    /\ FlowIdle
    /\ ServiceIdle

SafetyNext == Evaluate

SafetySpec == SafetyInit /\ [][SafetyNext]_vars

\* one long-lived checker: requests are evaluated and the environment asked
\* for while the surroundings of the process change
CacheConfigs ==
    {[global |-> [auto_detect_environment |-> FALSE],
      environment_policies |->
          [test |-> [enabled |-> TRUE, max_duration |-> 600,
                     allowed_experiment_types |-> <<"cpu_stress">>,
                     protected_services |-> <<database>>],
           default |-> [enabled |-> TRUE, max_duration |-> 0,
                        allowed_experiment_types |-> <<"cpu_stress">>,
                        protected_services |-> <<database>>]],
      service_discovery |-> ServiceDiscoveryOn],
     [environment_policies |->
          [test |-> [enabled |-> TRUE, max_duration |-> 600,
                     allowed_experiment_types |-> <<"cpu_stress">>,
                     protected_services |-> <<database>>],
           default |-> MinimalDefaultPolicy],
      environment_detection |-> EnvironmentDetection]}

CacheRequests ==
    {r \in Requests : /\ DOMAIN r = {"name", "type", "duration", "target"}
                      /\ r["type"] = "cpu_stress" /\ r["duration"] = 300}

\* SafetyChecker.get_environment_info: resolves the environment, decides nothing
GetEnvironmentInfo ==
    /\ environment_cache' = _get_environment_info(environment_cache, config, host)
    /\ UNCHANGED <<config, host, experiment, decision, runnerVars, flowVars, serviceVars>>

\* the hostname, the environment variables, the cloud metadata and the
\* discovery backends are outside the process and change under it
HostChanges(h) ==
    /\ host' = h
    /\ UNCHANGED <<config, environment_cache, experiment, decision, runnerVars, flowVars, serviceVars>>

CacheInit ==
    /\ config \in CacheConfigs
    /\ host \in Hosts
    /\ environment_cache = None
    /\ experiment \in CacheRequests
    /\ decision = NoDecision
    /\ RunnerIdle
    /\ FlowIdle
    /\ ServiceIdle

CacheNext ==
    \/ Evaluate
    \/ GetEnvironmentInfo
    \/ \E h \in Hosts : HostChanges(h)

CacheSpec == CacheInit /\ [][CacheNext]_vars

\* what the monitoring client and the dashboard server run beside: a checker
\* and a runner that do nothing
ServiceRest ==
    /\ config = MinimalDefaultConfig
    /\ host \in {h \in FlowHosts : h.environ = EmptyDict}
    /\ environment_cache = None
    /\ experiment = [name |-> "experiment", type |-> "cpu_stress", duration |-> 60]
    /\ decision = NoDecision
    /\ RunnerIdle
    /\ FlowIdle

\* the monitoring client: baselines captured and compared in any order
MonitoringInit ==
    /\ ServiceRest
    /\ ServiceIdle

MonitoringNext ==
    \/ \E m \in MetricSnapshots : CaptureBaseline(m)
    \/ \E m \in MetricSnapshots : CompareWithBaseline(m)

MonitoringSpec == MonitoringInit /\ [][MonitoringNext]_vars

\* the dashboard server: its tasks interleaved at their awaits
DashboardInit ==
    /\ ServiceRest
    /\ ServiceIdle

DashboardNext ==
    \/ \E c \in Sockets : Connect(c)
    \/ \E c \in Sockets : PeerCloses(c)
    \/ \E c \in Sockets : HandlerEnds(c)
    \/ \E c \in Sockets : ClientStart(c)
    \/ \E c \in Sockets : ClientStop(c)
    \/ \E t \in Tasks : BroadcastStep(t)
    \/ \E l \in LoopTasks : LoopIterate(l)

DashboardSpec == DashboardInit /\ [][DashboardNext]_vars

-----------------------------------------------------------------------------
(* properties *)

StopCalls == {"stop", "emergency_stop"}

\* the side effect a registry entry records is gone, in the state after a step
Reverted(e) ==
    IF e.exp_type = "network_latency" THEN e.interface \notin qdisc'
    ELSE procs'[e.process] \in {"exited", "killed"}

\* C1: in both run entry points, runner.start is called only after
\* is_safe_to_run returned an empty violation list for the experiment.
\* chaos_controller.main tests the returned tuple itself, which is never false.
C1_StartOnlyWhenNoViolation ==
    flow.start_called => decision[2] = <<>>

\* C2: when stop or emergency_stop returns, running_experiments is empty and the
\* side effect of every entry the registry held is reverted: the process has
\* exited or was killed, the netem rule is off its interface.
C2_StopLeavesNothingActive ==
    [][(last'.op \in StopCalls /\ last'.raised = "none")
        => /\ running_experiments' = <<>>
           /\ \A i \in 1..Len(running_experiments) : Reverted(running_experiments[i])]_vars

\* a stop returned after force-killing one process and deleting one rule
C2_Witness ==
    /\ last.op = "stop" /\ last.raised = "none" /\ last.found = 2
    /\ InList("kill", last.cmds) /\ InList("tc_del", last.cmds)
    /\ running_experiments = <<>>

\* C3: in both run flows, an interrupt or an error raised inside the try block
\* after runner.start was called leads to emergency_stop being invoked before
\* the flow ends, and the flow never ends with the registry non-empty and no
\* stop attempted.  chaos_controller.main catches Exception only, and
\* KeyboardInterrupt is not one.
C3_InterruptReachesEmergencyStop ==
    (pc = "done" /\ flow.start_called)
        => /\ flow.raised_in_try # "none" => flow.estop_invoked
           /\ running_experiments # <<>> => (flow.stop_called \/ flow.estop_invoked)

\* C4: when the reversal of one entry fails, stop still attempts the reversal
\* of every other entry the registry holds.
C4_StopAttemptsEveryEntry ==
    (last.op \in StopCalls /\ last.raised # "KeyboardInterrupt") => last.attempted = last.found

\* C5: a failing reversal does not make stop raise: stop returns a result map.
C5_StopReturnsOnReversalFailure ==
    (last.op \in StopCalls /\ last.raised # "KeyboardInterrupt") => last.raised = "none"

Supported == {"cpu_stress", "memory_exhaust", "network_latency"}

\* C6: emergency_stop is safe to call unconditionally: it raises no error and
\* leaves running_experiments empty, and called on an empty registry or a second
\* time in a row it issues no reversal command.
C6_EmergencyStopIdempotent ==
    /\ (last.op = "emergency_stop" /\ last.raised # "KeyboardInterrupt")
          => (last.raised = "none" /\ running_experiments = <<>>)
    /\ (/\ last.op = "emergency_stop"
        /\ \/ last.found = 0
           \/ last.prev_op = "emergency_stop" /\ last.prev_raised # "KeyboardInterrupt")
          => last.cmds = <<>>

\* C7: for each supported type, a successful start on an empty registry followed
\* at once by stop returns a result map with exactly one entry, keyed by that
\* type, and leaves running_experiments empty.
C7_StartThenStopRoundTrip ==
    [][(/\ last.op = "start" /\ last.raised = "none" /\ last.found = 0
        /\ last'.op = "stop" /\ last'.raised # "KeyboardInterrupt")
        => /\ last'.raised = "none"
           /\ DOMAIN last'.results = {last.exp_type}
           /\ running_experiments' = <<>>]_vars

\* C8: start with a type that is none of the three raises the unknown-type
\* error, issues no command, launches no process and leaves running_experiments
\* as it was.
C8_UnknownTypeChangesNothing ==
    [][(last'.op = "start" /\ last'.exp_type \notin Supported)
        => /\ last'.raised = "ValueError"
           /\ last'.cmds = <<>>
           /\ running_experiments' = running_experiments
           /\ qdisc' = qdisc
           /\ \A p \in ProcIds : procs[p] = "none" => procs'[p] = "none"]_vars

\* an unknown type was refused by a runner that holds an entry
C8_Witness ==
    /\ last.op = "start" /\ last.exp_type = "unknown_type" /\ last.raised = "ValueError"
    /\ last.found = 1 /\ Len(running_experiments) = 1

\* the policy is_safe_to_run resolved for the last decision
ResolvedPolicy == _get_environment_policy(config, environment_cache)

Evaluated == environment_cache # None

\* C9: when the resolved policy has enabled = false, or no enabled field, the
\* request is not authorized and the violations include environment_disabled.
C9_DisabledEnvironmentRefuses ==
    (Evaluated /\ ("enabled" \notin DOMAIN ResolvedPolicy \/ ~ResolvedPolicy["enabled"]))
        => (~decision[1] /\ InList("environment_disabled", decision[2]))

\* a policy without an enabled field refused a request that passes every other check
C9_Witness ==
    /\ Evaluated
    /\ "enabled" \notin DOMAIN ResolvedPolicy
    /\ decision = <<FALSE, <<"environment_disabled">> >>

\* C10: for a request with a duration and a policy with a max_duration, the
\* violations include duration_exceeded exactly when duration > max_duration,
\* whatever the other fields are.
C10_DurationExceededIffOverMax ==
    (Evaluated /\ "duration" \in DOMAIN experiment /\ "max_duration" \in DOMAIN ResolvedPolicy)
        => (InList("duration_exceeded", decision[2])
              <=> experiment["duration"] > ResolvedPolicy["max_duration"])

\* one second over the limit is the only thing wrong with the request
C10_Witness ==
    /\ Evaluated
    /\ "duration" \in DOMAIN experiment /\ experiment["duration"] = 601
    /\ "max_duration" \in DOMAIN ResolvedPolicy /\ ResolvedPolicy["max_duration"] = 600
    /\ decision = <<FALSE, <<"duration_exceeded">> >>

\* the policy of the authorized-run scenario
ScenarioPolicy ==
    [enabled |-> TRUE, max_duration |-> 600, allowed_experiment_types |-> <<"cpu_stress">>,
     protected_services |-> <<database>>]

\* the request {type: cpu_stress, duration: 300, target.service: web}
ScenarioRequest ==
    /\ DOMAIN experiment = {"name", "type", "duration", "target"}
    /\ experiment["type"] = "cpu_stress"
    /\ experiment["duration"] = 300
    /\ experiment["target"] = [service |-> web]

\* the configuration holds policies only: no per-type limits, no discovery
PoliciesOnly == DOMAIN config \cap {"experiment_safety", "service_discovery"} = {}

\* C11: is_safe_to_run returns is_safe = true exactly when the violation list
\* it returns is empty; and in environment test under the scenario policy the
\* request {cpu_stress, 300 s, service web} is authorized with no violation.
C11_AuthorizedIffNoViolation ==
    Evaluated =>
        /\ decision[1] <=> (decision[2] = <<>>)
        /\ (/\ environment_cache = "test" /\ ResolvedPolicy = ScenarioPolicy
            /\ ScenarioRequest /\ PoliciesOnly)
              => decision = <<TRUE, <<>> >>

\* the scenario request was authorized in environment test
C11_Witness ==
    /\ Evaluated /\ environment_cache = "test" /\ ResolvedPolicy = ScenarioPolicy
    /\ ScenarioRequest /\ PoliciesOnly
    /\ decision = <<TRUE, <<>> >>

\* the violation kinds in the order of the procedure
ProcedureOrder ==
    <<"environment_disabled", "experiment_type_forbidden", "duration_exceeded", "protected_service",
      "cpu_intensity_exceeded", "memory_amount_excessive", "network_latency_exceeded",
      "interface_not_allowed">>

\* the per-type limits configured for the type of the request, if any
TypeLimits ==
    LET limits == Get(config, "experiment_safety", EmptyDict) IN
    Get(limits, Get(experiment, "type", None), EmptyDict)

HasTypeLimits(type) ==
    /\ Get(experiment, "type", None) = type
    /\ type \in DOMAIN Get(config, "experiment_safety", EmptyDict)

\* the request of the last decision fails the check that reports `kind`
Fails(kind) ==
    CASE kind = "environment_disabled" ->
            "enabled" \notin DOMAIN ResolvedPolicy \/ ~ResolvedPolicy["enabled"]
      [] kind = "experiment_type_forbidden" ->
            LET allowed == Get(ResolvedPolicy, "allowed_experiment_types", <<>>) IN
            ~InList("*", allowed) /\ ~InList(Get(experiment, "type", "unknown"), allowed)
      [] kind = "duration_exceeded" ->
            Get(experiment, "duration", 0) > Get(ResolvedPolicy, "max_duration", 0)
      [] kind = "protected_service" ->
            _is_protected_service(Get(Get(experiment, "target", EmptyDict), "service", unknown),
                                  ResolvedPolicy, config, host)
      [] kind = "cpu_intensity_exceeded" ->
            /\ HasTypeLimits("cpu_stress")
            /\ Get(experiment, "intensity", 100) > Get(TypeLimits, "max_intensity", 100)
      [] kind = "memory_amount_excessive" ->
            /\ HasTypeLimits("memory_exhaust")
            /\ Get(experiment, "memory_mb", 0) > MemoryCeilingMb
      [] kind = "network_latency_exceeded" ->
            /\ HasTypeLimits("network_latency")
            /\ Get(experiment, "latency_ms", 0) > Get(TypeLimits, "max_latency_ms", 5000)
      [] kind = "interface_not_allowed" ->
            /\ HasTypeLimits("network_latency")
            /\ Get(TypeLimits, "allowed_interfaces", <<>>) # <<>>
            /\ ~InList(Get(experiment, "interface", ""), Get(TypeLimits, "allowed_interfaces", <<>>))

\* C12: is_safe_to_run does not stop at the first failure: the list it returns
\* holds one violation for each check the request fails, in the order of the
\* procedure, and nothing else; a request failing the duration check alone
\* gets exactly [duration_exceeded].
C12_EveryFailedCheckReported ==
    Evaluated => decision[2] = SelectSeq(ProcedureOrder, Fails)

\* a request failed five checks at once and all five were reported
C12_Witness ==
    /\ Evaluated
    /\ decision[2] = <<"environment_disabled", "experiment_type_forbidden", "duration_exceeded",
                       "protected_service", "interface_not_allowed">>

\* the policies of the configuration, and the one the resolution is to pick for
\* the detected environment type
ConfiguredPolicies == Get(config, "environment_policies", EmptyDict)

NoPolicyApplies ==
    environment_cache \notin DOMAIN ConfiguredPolicies /\ "default" \notin DOMAIN ConfiguredPolicies

ExpectedPolicy ==
    IF environment_cache \in DOMAIN ConfiguredPolicies THEN ConfiguredPolicies[environment_cache]
    ELSE IF "default" \in DOMAIN ConfiguredPolicies THEN ConfiguredPolicies["default"]
    ELSE [enabled |-> FALSE, max_duration |-> 0, allowed_experiment_types |-> <<>>,
          protected_services |-> << <<"*">> >>, require_confirmation |-> TRUE]

\* C13: the decision is taken under the policy keyed by the detected
\* environment type, else under the default policy, else under the synthetic
\* policy {enabled = false, max_duration = 0, no allowed type, everything
\* protected}; with neither an exact nor a default policy configured, no
\* request is authorized.
C13_PolicyResolutionFallsBackRestrictive ==
    Evaluated =>
        /\ ResolvedPolicy = ExpectedPolicy
        /\ InList("environment_disabled", decision[2]) <=> ~Get(ExpectedPolicy, "enabled", FALSE)
        /\ InList("duration_exceeded", decision[2])
              <=> Get(experiment, "duration", 0) > Get(ExpectedPolicy, "max_duration", 0)
        /\ NoPolicyApplies
              => /\ ~decision[1]
                 /\ InList("environment_disabled", decision[2])
                 /\ InList("experiment_type_forbidden", decision[2])
                 /\ InList("protected_service", decision[2])

\* policies are configured, none of them for the detected environment and none
\* as default, and a 300 s cpu_stress on web was refused
C13_Witness ==
    /\ Evaluated
    /\ ConfiguredPolicies # EmptyDict /\ NoPolicyApplies
    /\ ScenarioRequest
    /\ decision = <<FALSE, <<"environment_disabled", "experiment_type_forbidden",
                             "duration_exceeded", "protected_service">> >>

\* the static protected_services list of the resolved policy
ProtectedList == Get(ResolvedPolicy, "protected_services", <<>>)

\* C14: under a policy whose protected_services holds "*", every request gets
\* a protected_service violation: whatever its target service, also with no
\* target at all, and whatever service discovery answers.
C14_WildcardProtectsEverything ==
    (Evaluated /\ InList(<<"*">>, ProtectedList))
        => (~decision[1] /\ InList("protected_service", decision[2]))

\* a request without a target, on a host where discovery finds nothing, was
\* refused under a wildcard policy
C14_Witness ==
    /\ Evaluated /\ InList(<<"*">>, ProtectedList)
    /\ "target" \notin DOMAIN experiment
    /\ ~host.k8s_marker /\ host.consul.status # "ok"
    /\ InList("protected_service", decision[2])

\* the service the request targets, as is_safe_to_run reads it
TargetService == Get(Get(experiment, "target", EmptyDict), "service", unknown)

\* C15: a target service is protected whenever an entry of the static list
\* equals or is a substring of the service name, case ignored on both sides;
\* such a request gets a protected_service violation.  The code lowers the
\* service name only, so an entry written with a capital never matches.
C15_StaticListMatchesIgnoringCase ==
    (Evaluated /\ \E i \in 1..Len(ProtectedList) :
                      Contains(lower(ProtectedList[i]), lower(TargetService)))
        => InList("protected_service", decision[2])

\* the classification rules of the configuration and the ones that match the host
Rules == Get(Get(config, "environment_detection", EmptyDict), "classification_rules", <<>>)

AutoDetected == Get(Get(config, "global", EmptyDict), "auto_detect_environment", TRUE)

Matching ==
    {i \in 1..Len(Rules) : RuleMatches(Rules[i], host, _detect_cloud_provider(config, host).tags)}

\* C16: the detected environment type is the name of the first configured rule
\* that matches, by hostname, environment variable or cloud tag; a later rule
\* is never returned when an earlier one matches, and `default` is returned
\* only when no rule matches.
C16_FirstMatchingRuleWins ==
    (Evaluated /\ AutoDetected)
        => /\ Matching = {} => environment_cache = "default"
           /\ \A i \in Matching :
                 (\A j \in Matching : i <= j) => environment_cache = Rules[i].name

\* the hostname rule and the ENV=test rule both match, and the hostname rule,
\* declared first, gave the environment its name
C16_Witness ==
    /\ Evaluated /\ AutoDetected
    /\ Matching = {1, 2}
    /\ "ENV" \in DOMAIN host.environ
    /\ environment_cache = Rules[1].name
    /\ Rules[1].name # Rules[2].name

\* the run of chaos_framework.run_experiment has ended, and not by a second
\* interrupt arriving while the handler was cleaning up
RunExperimentEnded ==
    /\ pc = "done" /\ entry = "run_experiment"
    /\ ~(last.op = "emergency_stop" /\ last.raised = "KeyboardInterrupt")

\* C17: every path through run_experiment ends by returning an exit code: 130
\* after a user interrupt, 1 after a safety rejection or a runtime error during
\* the experiment, 0 otherwise (the experiment ran to completion).  When the
\* cleanup of the handler raises, run_experiment returns nothing.
C17_RunExperimentReturnsExitCode ==
    RunExperimentEnded =>
        /\ flow.ended = "returned"
        /\ flow.exit_code =
              IF flow.raised_in_try = "KeyboardInterrupt" THEN 130
              ELSE IF flow.raised_in_try # "none" \/ ~decision[1] THEN 1
              ELSE 0

\* C18: in dry-run mode the run flow never calls ExperimentRunner.start: no
\* registry entry is created, no process is launched and no traffic-shaping
\* command is issued, whether or not the request is authorized.
C18_DryRunStartsNothing ==
    dry_run =>
        /\ ~flow.start_called
        /\ pc \notin {"start", "sleep", "stop", "report", "except_interrupt", "except_error"}
        /\ running_experiments = <<>>
        /\ last = NoCall
        /\ qdisc = {}
        /\ \A p \in ProcIds : procs[p] = "none"

\* a dry run of an authorized request ended right after the evaluation
C18_Witness ==
    /\ dry_run /\ pc = "done"
    /\ decision[1]
    /\ flow.ended = "returned" /\ flow.exit_code = 0
    /\ ~flow.start_called

\* the labels that name a production environment
ProductionLabels == {"production", "prod", "prd", "prod-east", "production-west"}

\* C19: a request whose target.environment names a production environment is
\* refused, on whatever host and under whatever policy it is evaluated.
\* is_safe_to_run never reads target.environment.
C19_ProductionTargetRefused ==
    (Evaluated /\ Get(Get(experiment, "target", EmptyDict), "environment", "") \in ProductionLabels)
        => ~decision[1]

\* C20: a start whose injector fails (Popen raises, tc qdisc add exits
\* non-zero) ends by raising that error and leaves running_experiments as it
\* was; a start records an entry, exactly one, only when it returns.
C20_FailedStartRecordsNothing ==
    [][(last' # last /\ last'.op = "start" /\ last'.exp_type \in Supported)
        => IF last'.raised = "none"
           THEN /\ Len(running_experiments') = Len(running_experiments) + 1
                /\ SubSeq(running_experiments', 1, Len(running_experiments)) = running_experiments
           ELSE /\ last'.raised \in {"OSError", "CalledProcessError", "KeyError"}
                /\ running_experiments' = running_experiments]_vars

\* tc qdisc add failed for a start on a runner that holds one entry, which is
\* still the only one
C20_Witness ==
    /\ last.op = "start" /\ last.exp_type = "network_latency"
    /\ last.raised = "CalledProcessError" /\ last.cmds = <<"tc_add">>
    /\ last.found = 1 /\ Len(running_experiments) = 1

\* C21: when tc qdisc add failed for a network_latency start, the next stop or
\* emergency_stop still attempts tc qdisc del on that interface.  A failed
\* start records no entry, and stop reverses recorded entries only.
C21_FailedApplyStillReversed ==
    [][(/\ last.op = "start" /\ last.exp_type = "network_latency" /\ last.raised # "none"
        /\ last' # last /\ last'.op \in StopCalls)
        => InList("tc_del", last'.cmds)]_vars

\* C22: running_experiments changes in two ways only: a start that returns
\* appends one entry, and a stop that returns empties it with every entry
\* reverted.  A stop that ends by an error or an interrupt leaves in it every
\* entry it held, the one whose reversal failed included.
C22_RegistryKeepsUnrevertedEntries ==
    [][/\ (last' # last /\ last'.op \in StopCalls /\ last'.raised # "none")
            => running_experiments' = running_experiments
       /\ running_experiments' # running_experiments
            => \/ /\ last'.op = "start" /\ last'.raised = "none"
                  /\ Len(running_experiments') = Len(running_experiments) + 1
                  /\ SubSeq(running_experiments', 1, Len(running_experiments)) = running_experiments
               \/ /\ last'.op \in StopCalls /\ last'.raised = "none"
                  /\ running_experiments' = <<>>
                  /\ \A i \in 1..Len(running_experiments) : Reverted(running_experiments[i])]_vars

\* a stop reverted its first entry, failed on the second, and both are still
\* in the registry
C22_Witness ==
    /\ last.op = "stop" /\ last.raised = "CalledProcessError"
    /\ last.found = 2 /\ last.attempted = 2
    /\ Len(running_experiments) = 2
    /\ running_experiments[2].exp_type = "network_latency"
    /\ running_experiments[2].interface \in qdisc

\* the cloud providers of the configuration, and those whose probe answers
ConfiguredProviders ==
    Get(Get(config, "environment_detection", EmptyDict), "cloud_providers", <<>>)

Answering ==
    {i \in 1..Len(ConfiguredProviders) :
        /\ "metadata_url" \in DOMAIN ConfiguredProviders[i].config
        /\ host.cloud[ConfiguredProviders[i].provider].status = "ok"}

\* C23: cloud detection probes the configured providers in turn: the metadata
\* used is that of the first provider whose probe succeeds, also when the
\* providers before it failed, and there is none only when every probe failed.
\* The loop returns the result of the first provider it probes, failed or not.
C23_NextProviderProbedAfterFailure ==
    (Evaluated /\ AutoDetected)
        => /\ Answering = {} => ~_detect_cloud_provider(config, host).found
           /\ \A i \in Answering :
                 (\A j \in Answering : i <= j)
                    => /\ _detect_cloud_provider(config, host).found
                       /\ _detect_cloud_provider(config, host).provider
                             = ConfiguredProviders[i].provider

RequestType == Get(experiment, "type", None)

\* C24: the type-specific checks report for every request of the type: a
\* cpu_stress request gets cpu_intensity_exceeded exactly when its intensity
\* exceeds the configured max_intensity, a network_latency request gets
\* network_latency_exceeded exactly when latency_ms exceeds max_latency_ms and
\* interface_not_allowed exactly when an allow-list is configured and does not
\* hold its interface, and a memory_exhaust request gets memory_amount_excessive
\* exactly when memory_mb exceeds the ceiling.  The ceiling is looked at only
\* when the configuration has an experiment_safety section for memory_exhaust.
C24_TypeParametersChecked ==
    Evaluated =>
        /\ (/\ HasTypeLimits("cpu_stress") /\ "max_intensity" \in DOMAIN TypeLimits
            /\ "intensity" \in DOMAIN experiment)
              => (InList("cpu_intensity_exceeded", decision[2])
                    <=> experiment["intensity"] > TypeLimits["max_intensity"])
        /\ (/\ HasTypeLimits("network_latency") /\ "max_latency_ms" \in DOMAIN TypeLimits
            /\ "latency_ms" \in DOMAIN experiment)
              => (InList("network_latency_exceeded", decision[2])
                    <=> experiment["latency_ms"] > TypeLimits["max_latency_ms"])
        /\ (RequestType = "network_latency" /\ "interface" \in DOMAIN experiment)
              => (InList("interface_not_allowed", decision[2])
                    <=> /\ Get(TypeLimits, "allowed_interfaces", <<>>) # <<>>
                        /\ ~InList(experiment["interface"], TypeLimits["allowed_interfaces"]))
        /\ (RequestType = "memory_exhaust" /\ "memory_mb" \in DOMAIN experiment)
              => (InList("memory_amount_excessive", decision[2])
                    <=> experiment["memory_mb"] > MemoryCeilingMb)

\* the static list of the resolved policy protects the target, as the code
\* compares them
StaticProtected ==
    \/ InList(<<"*">>, ProtectedList)
    \/ \E i \in 1..Len(ProtectedList) : Contains(ProtectedList[i], lower(TargetService))

\* discovery is switched on in the configuration
DiscoveryEnabled ==
    LET sd == Get(config, "service_discovery", EmptyDict) IN
    \/ Get(Get(sd, "kubernetes", EmptyDict), "enabled", FALSE)
    \/ Get(Get(sd, "consul", EmptyDict), "enabled", FALSE)

\* no backend answers: consul is unavailable and the host is not in kubernetes
BackendsUnavailable ==
    /\ host.consul.status # "ok"
    /\ ~host.k8s_marker /\ "KUBERNETES_SERVICE_HOST" \notin DOMAIN host.environ

C25_EnvironmentDetectedOnce ==
    [][Evaluated
        => /\ environment_cache' = environment_cache
           /\ decision' # NoDecision
                => (InList("duration_exceeded", decision'[2])
                      <=> Get(experiment, "duration", 0)
                            > Get(_get_environment_policy(config, environment_cache),
                                  "max_duration", 0))]_vars

\* the environment was resolved as production; the process now sits on a host
\* that detection would call test, where consul reports web as critical: the
\* decision saw the new host's discovery and still used the cached type
C25_Witness ==
    /\ environment_cache = "production"
    /\ DetectNow(config, host) = "test"
    /\ host.consul.status = "ok"
    /\ TargetService = web
    /\ decision = <<FALSE, <<"duration_exceeded", "protected_service">> >>

\* the number of times a stop issued command c
Issued(c, cmds) == Cardinality({k \in 1..Len(cmds) : cmds[k] = c})

\* the process of entry e outlived the wait and was killed by this step
KilledNow(e) == procs[e.process] = "running" /\ procs'[e.process] = "killed"

\* entry i is the last one of its type in the registry
LastOfType(i) ==
    \A j \in (i + 1)..Len(running_experiments) :
        running_experiments[j].exp_type # running_experiments[i].exp_type

\* C30: for every process entry stop first asks the process to terminate and
\* waits; it kills the process only when the wait timed out, recording
\* force_killed then and completed otherwise; a process that exited is never
\* killed; and a timeout on one entry does not keep stop from the next ones.
C30_GracefulThenForceKill ==
    [][(last' # last /\ last'.op \in StopCalls)
        => /\ \A k \in 1..Len(last'.cmds) :
                 last'.cmds[k] = "kill" => (k > 1 /\ last'.cmds[k - 1] = "terminate")
           /\ Issued("kill", last'.cmds)
                 = Cardinality({p \in ProcIds : procs[p] # "killed" /\ procs'[p] = "killed"})
           /\ \A p \in ProcIds :
                 /\ (procs[p] # "killed" /\ procs'[p] = "killed") => procs[p] = "running"
                 /\ procs[p] = "exited" => procs'[p] = "exited"
           /\ (/\ last'.raised # "KeyboardInterrupt"
               /\ \A i \in 1..Len(running_experiments) :
                     running_experiments[i].exp_type # "network_latency")
                 => /\ last'.raised = "none"
                    /\ last'.attempted = Len(running_experiments)
                    /\ Issued("terminate", last'.cmds) = Len(running_experiments)
           /\ (last'.op = "stop" /\ last'.raised = "none")
                 => \A i \in 1..Len(running_experiments) :
                       (running_experiments[i].exp_type # "network_latency" /\ LastOfType(i))
                          => last'.results[running_experiments[i].exp_type]
                               = IF KilledNow(running_experiments[i])
                                 THEN "force_killed" ELSE "completed"]_vars

\* the first process outlived the wait and was killed, and the second one was
\* still asked to terminate and exited by itself
C30_Witness ==
    /\ last.op = "stop" /\ last.raised = "none"
    /\ last.cmds = <<"terminate", "kill", "terminate">>
    /\ last.results = [cpu_stress |-> "force_killed", memory_exhaust |-> "completed"]
    /\ procs = [p \in ProcIds |-> IF p = 1 THEN "killed" ELSE "exited"]

\* the metrics of the last comparison that both snapshots hold
InBoth == DOMAIN comparison.current \cap DOMAIN comparison.baseline

\* C29: the baseline comparison never fails on a baseline value of 0: it
\* returns, a metric whose baseline is 0 is left out of the result, a metric
\* that the baseline does not hold is left out, and every other metric of both
\* snapshots is reported with (current - baseline) / baseline * 100.
C29_ZeroBaselineNeverFailsComparison ==
    comparison.called
       => /\ comparison.raised = "none"
          /\ DOMAIN comparison.value = {m \in InBoth : comparison.baseline[m] # 0}
          /\ \A m \in DOMAIN comparison.value :
                /\ comparison.value[m].baseline = comparison.baseline[m]
                /\ comparison.value[m].current = comparison.current[m]
                /\ comparison.value[m].change_percent * comparison.baseline[m]
                      = (comparison.current[m] - comparison.baseline[m]) * 100

\* a client subscribed when the broadcast of task t began and is subscribed
\* still, and the delivery to it did not fail
StillSubscribed(t) == (bc[t].targets \cap clients) \ bc[t].disconnected

\* this step ends the broadcast of task t
BroadcastEnds(t) == bc[t].active /\ ~bc'[t].active

\* C27: a broadcast in which a delivery failed removes exactly the subscribers
\* whose delivery failed, every other subscriber has got the message when the
\* broadcast ends, and a metrics loop whose broadcast ends goes on to its
\* sleep and its next round; whatever connects or disconnects meanwhile.
C27_FailedDeliveryRemovesOnlyThatSubscriber ==
    [][\A t \in Tasks :
          (BroadcastEnds(t) /\ bc[t].disconnected # {})
             => /\ clients' = clients \ bc[t].disconnected
                /\ StillSubscribed(t) \subseteq bc[t].got
                /\ t \in LoopTasks => loop'[t] = "sleep"]_vars

\* C28: never have two metrics_collection_loop tasks polled since streaming
\* was last switched on: there is one producer at a time, whatever the order
\* of the start and stop requests.
C28_AtMostOneMetricsProducer ==
    Cardinality(polled) <= 1

====
